---------------------------- MODULE Spec2Model ----------------------------
(***************************************************************************)
(* The request engine of the Entrolytics API client (src/src/client.ts):   *)
(* class ApiClient -- construction, authentication header derivation,      *)
(* header composition, the retry loop of request() and the envelope it     *)
(* returns.  One client, one logical call; the transport (the injected     *)
(* fetch function) is the environment and may answer every attempt with    *)
(* any response or with any thrown value.                                  *)
(***************************************************************************)
EXTENDS Integers, Sequences, FiniteSets, TLC

(***************************************************************************)
(* Bounds of the model and constants of the program.                       *)
(***************************************************************************)
\* largest explicitly configured retries value explored
MaxRetries == 2
\* how many times the bearer token is refreshed in one behaviour
MaxTokenSets == 1
\* retries when the config gives none (client.ts:59)
DefaultRetries == 3
\* retryDelay in ms when the config gives none (client.ts:60)
DefaultRetryDelay == 1000

(***************************************************************************)
(* JavaScript values.  A string-typed optional field is either the         *)
(* sentinel Undefined or a string; the empty string is a string.           *)
(***************************************************************************)
Undefined == "<undefined>"

\* JavaScript truthiness of an optional string (`if (x)`, `x || y`, `!x`)
Truthy(s) == s # Undefined /\ s # ""

\* a || b on optional strings
OrElse(a, b) == IF Truthy(a) THEN a ELSE b

\* a ?? b on an optional number, the option being a set of at most one number
Coalesce(opt, dflt) == IF opt = {} THEN dflt ELSE CHOOSE n \in opt : TRUE

\* 2 ** n for n >= 0
RECURSIVE Pow2(_)
Pow2(n) == IF n <= 0 THEN 1 ELSE 2 * Pow2(n - 1)

\* { ...a, ...b } on string-keyed objects: b's entries override a's
Spread(a, b) ==
  [k \in (DOMAIN a) \cup (DOMAIN b) |-> IF k \in DOMAIN b THEN b[k] ELSE a[k]]

\* the object {}
EmptyHeaders == [k \in {} |-> ""]


(***************************************************************************)
(* Transport outcomes: what the injected fetch does with one call.         *)
(* A response carries its status, the ok flag the transport reports for it *)
(* (Response.ok: status in 200..299) and what response.json() produces.    *)
(***************************************************************************)
\* a property of a parsed JSON object as `typeof` sees it
Str(s) == [type |-> "string", value |-> s]
Num(s) == [type |-> "number", value |-> s]
NoProp == [type |-> "undefined", value |-> ""]

\* a parsed body: an object with its error and message properties, or null,
\* or a non-object value (number, string, boolean), or text json() rejects
Obj(e, m) == [kind |-> "object", error |-> e, message |-> m]
EmptyObject == Obj(NoProp, NoProp)
NullBody == [kind |-> "null", error |-> NoProp, message |-> NoProp]
ScalarBody == [kind |-> "scalar", error |-> NoProp, message |-> NoProp]
Unparsable == [kind |-> "unparsable", error |-> NoProp, message |-> NoProp]

Bodies ==
  { Obj(Str("bad input"), Str("not found")),
    Obj(NoProp, Str("not found")),
    Obj(Num("42"), Str("not found")),
    Obj(Num("42"), Num("7")),
    EmptyObject, NullBody, ScalarBody, Unparsable }

Statuses == {200, 301, 404, 429, 503}

NoThrown == [isError |-> FALSE, message |-> ""]

Response(st, b) ==
  [type |-> "response", status |-> st, ok |-> (st >= 200 /\ st <= 299),
   body |-> b, thrown |-> NoThrown]

Responses == { Response(st, b) : st \in Statuses, b \in Bodies }

\* a thrown value: whether it is an instance of Error, and its message
\* (for a non-Error value: the text it carries, which the client never reads)
Thrown(isErr, msg) ==
  [type |-> "throw", status |-> 0, ok |-> FALSE, body |-> EmptyObject,
   thrown |-> [isError |-> isErr, message |-> msg]]

TransportErrors ==
  { Thrown(TRUE, "fetch failed"), Thrown(TRUE, ""), Thrown(FALSE, "boom") }

\* errors raised by the client's own code or the runtime before fetch is called
InvalidCharacterError == Thrown(TRUE, "Invalid character")
StringifyError == Thrown(TRUE, "Converting circular structure to JSON")
NotAFunction == Thrown(TRUE, "this.fetchFn is not a function")
InvalidUrl == Thrown(TRUE, "Invalid URL")
\* reading data.error when data is null
NullPropertyError == Thrown(TRUE, "Cannot read properties of null (reading 'error')")
ShareTokenConfigError ==
  Thrown(TRUE, "userId and secret are required for self-hosted authentication")

NoOutcome ==
  [type |-> "none", status |-> 0, ok |-> FALSE, body |-> EmptyObject,
   thrown |-> NoThrown]

\* the outcome of an attempt that threw before fetch was called
PreFetch(e) == [e EXCEPT !.type = "prefetch"]

(***************************************************************************)
(* Pure helpers of ApiClient.                                              *)
(***************************************************************************)
\* user ids holding a character outside Latin-1, which btoa rejects
NonLatin1 == {"user-snowman"}

\* JSON.stringify({ userId, timestamp })
PayloadJson(uid, now) == "{userId:" \o uid \o ",timestamp:" \o now \o "}"

\* createShareToken(): the token, or the error it throws
createShareToken(uid, sec, now, buffer) ==
  IF ~Truthy(uid) \/ ~Truthy(sec)
  THEN [threw |-> TRUE, error |-> ShareTokenConfigError, value |-> ""]
  ELSE IF buffer
  THEN [threw |-> FALSE, error |-> NoOutcome,
        value |-> "base64(" \o PayloadJson(uid, now) \o ")"]
  ELSE IF uid \in NonLatin1
  THEN [threw |-> TRUE, error |-> InvalidCharacterError, value |-> ""]
  ELSE [threw |-> FALSE, error |-> NoOutcome,
        value |-> "base64(" \o PayloadJson(uid, now) \o ")"]

\* a faulty getAuthHeaders that enters the legacy branch with either field
getAuthHeadersLegacyEither(token, key, uid, sec, now, buffer) ==
  IF Truthy(token)
  THEN [threw |-> FALSE, error |-> NoOutcome,
        headers |-> [k \in {"Authorization"} |-> "Bearer " \o token]]
  ELSE IF Truthy(key)
  THEN [threw |-> FALSE, error |-> NoOutcome,
        headers |-> [k \in {"x-entrolytics-api-key"} |-> key]]
  ELSE IF Truthy(uid) \/ Truthy(sec)
  THEN LET t == createShareToken(uid, sec, now, buffer)
       IN  [threw |-> t.threw, error |-> t.error,
            headers |-> IF t.threw THEN EmptyHeaders
                        ELSE [k \in {"x-entrolytics-share-token"} |-> t.value]]
  ELSE [threw |-> FALSE, error |-> NoOutcome, headers |-> EmptyHeaders]

\* a faulty getAuthHeaders that lets the API key win over the bearer token
getAuthHeadersKeyFirst(token, key, uid, sec, now, buffer) ==
  IF Truthy(key)
  THEN [threw |-> FALSE, error |-> NoOutcome,
        headers |-> [k \in {"x-entrolytics-api-key"} |-> key]]
  ELSE IF Truthy(token)
  THEN [threw |-> FALSE, error |-> NoOutcome,
        headers |-> [k \in {"Authorization"} |-> "Bearer " \o token]]
  ELSE IF Truthy(uid) /\ Truthy(sec)
  THEN LET t == createShareToken(uid, sec, now, buffer)
       IN  [threw |-> t.threw, error |-> t.error,
            headers |-> IF t.threw THEN EmptyHeaders
                        ELSE [k \in {"x-entrolytics-share-token"} |-> t.value]]
  ELSE [threw |-> FALSE, error |-> NoOutcome, headers |-> EmptyHeaders]

\* a faulty getAuthHeaders that merges the bearer token and the API key
getAuthHeadersMerged(token, key, uid, sec, now, buffer) ==
  LET bearer == IF Truthy(token)
                THEN [k \in {"Authorization"} |-> "Bearer " \o token]
                ELSE EmptyHeaders
      api == IF Truthy(key) THEN [k \in {"x-entrolytics-api-key"} |-> key]
             ELSE EmptyHeaders
  IN  IF Truthy(token) \/ Truthy(key)
      THEN [threw |-> FALSE, error |-> NoOutcome, headers |-> Spread(bearer, api)]
      ELSE IF Truthy(uid) /\ Truthy(sec)
      THEN LET t == createShareToken(uid, sec, now, buffer)
           IN  [threw |-> t.threw, error |-> t.error,
                headers |-> IF t.threw THEN EmptyHeaders
                            ELSE [k \in {"x-entrolytics-share-token"} |-> t.value]]
      ELSE [threw |-> FALSE, error |-> NoOutcome, headers |-> EmptyHeaders]

\* getAuthHeaders(): priority bearer token > API key > legacy share token
getAuthHeaders(token, key, uid, sec, now, buffer) ==
  IF Truthy(token)
  THEN [threw |-> FALSE, error |-> NoOutcome,
        headers |-> [k \in {"Authorization"} |-> "Bearer " \o token]]
  ELSE IF Truthy(key)
  THEN [threw |-> FALSE, error |-> NoOutcome,
        headers |-> [k \in {"x-entrolytics-api-key"} |-> key]]
  ELSE IF Truthy(uid) /\ Truthy(sec)
  THEN LET t == createShareToken(uid, sec, now, buffer)
       IN  [threw |-> t.threw, error |-> t.error,
            headers |-> IF t.threw THEN EmptyHeaders
                        ELSE [k \in {"x-entrolytics-share-token"} |-> t.value]]
  ELSE [threw |-> FALSE, error |-> NoOutcome, headers |-> EmptyHeaders]

\* isRetryable(status)
isRetryable(status) == status = 0 \/ status = 429 \/ status >= 500

\* a faulty composition that spreads the auth headers after the caller's
ComposeHeadersAuthLast(auth, callerHeaders) ==
  Spread(Spread([k \in {"Content-Type"} |-> "application/json"], callerHeaders),
         auth)

\* the headers of an attempt: content type, then auth, then the caller's
ComposeHeaders(auth, callerHeaders) ==
  Spread(Spread([k \in {"Content-Type"} |-> "application/json"], auth),
         callerHeaders)

\* a faulty loop condition that runs one attempt too many
LoopConditionOneMore(a, n) == a <= n + 1

\* the loop condition of request()
LoopCondition(a, n) == a <= n

\* a faulty test that also sleeps after the final attempt
AttemptsRemainOrLast(a, n) == a <= n

\* whether a failed attempt is followed by a backoff sleep
AttemptsRemain(a, n) == a < n

\* the backoff delay after attempt a
BackoffDelay(base, a) == base * Pow2(a)

(***************************************************************************)
(* Caller-supplied values: request bodies and query parameters.            *)
(***************************************************************************)
\* a JavaScript value: its type and its String()/JSON text
Js(t, x) == [type |-> t, text |-> x]
JsUndefined == Js("undefined", "undefined")
\* an object holding a reference to itself, which JSON.stringify rejects
Circular == Js("circular", "[object Object]")

\* truthiness of a value (`if (body)`)
JsTruthy(v) ==
  CASE v.type = "undefined" -> FALSE
    [] v.type = "null" -> FALSE
    [] v.type = "number" -> v.text # "0"
    [] v.type = "string" -> v.text # ""
    [] v.type = "boolean" -> v.text = "true"
    [] OTHER -> TRUE

\* JSON.stringify(v): the text, or the TypeError of a circular structure
JsonStringify(v) ==
  IF v.type = "circular"
  THEN [threw |-> TRUE, error |-> StringifyError, text |-> ""]
  ELSE [threw |-> FALSE, error |-> NoOutcome,
        text |-> IF v.type = "string" THEN "\"" \o v.text \o "\"" ELSE v.text]

\* fetchOptions.body: absent unless the body is truthy
NoRequestBody == [present |-> FALSE, text |-> ""]

\* absolute URLs and their origins, as the URL parser sees them
Origins ==
  [u \in {"https://api.example.com/api"} |-> "https://api.example.com"]

\* the search part of a URL as a sequence of <<key, value>> pairs
RECURSIVE SearchSet(_, _, _)
\* url.searchParams.set(key, value): replace the first pair of that key and drop
\* its other pairs, or append
SearchSet(search, key, value) ==
  IF \A i \in 1..Len(search) : search[i][1] # key
  THEN Append(search, <<key, value>>)
  ELSE LET first == CHOOSE i \in 1..Len(search) :
                      /\ search[i][1] = key
                      /\ \A j \in 1..(i - 1) : search[j][1] # key
           keep == { i \in 1..Len(search) : i = first \/ search[i][1] # key }
           F[i \in 0..Len(search)] ==
             IF i = 0 THEN <<>>
             ELSE IF i \notin keep THEN F[i - 1]
             ELSE Append(F[i - 1], IF i = first THEN <<key, value>> ELSE search[i])
       IN  F[Len(search)]

RECURSIVE ApplyParamsAll(_, _)
\* a faulty loop that sets every entry, undefined ones included
ApplyParamsAll(search, entries) ==
  IF entries = <<>> THEN search
  ELSE ApplyParamsAll(SearchSet(search, Head(entries)[1], Head(entries)[2].text),
                      Tail(entries))

RECURSIVE ApplyParams(_, _)
\* Object.entries(params).forEach: set every entry whose value is not undefined
ApplyParams(search, entries) ==
  IF entries = <<>> THEN search
  ELSE LET e == Head(entries)
       IN  ApplyParams(IF e[2].type # "undefined"
                       THEN SearchSet(search, e[1], e[2].text)
                       ELSE search,
                       Tail(entries))

RECURSIVE SearchText(_)
SearchText(search) ==
  IF search = <<>> THEN ""
  ELSE search[1][1] \o "=" \o search[1][2]
       \o (IF Len(search) > 1 THEN "&" ELSE "") \o SearchText(Tail(search))

\* the pathname and the query pairs new URL(path, base) parses out of a path
PathParts ==
  [p \in {"/websites", "/websites?page=1", "/websites?page=1&page=7"} |->
     [pathname |-> "/websites",
      search |-> IF p = "/websites" THEN <<>>
                 ELSE IF p = "/websites?page=1" THEN << <<"page", "1">> >>
                 ELSE << <<"page", "1">>, <<"page", "7">> >>]]

\* buildUrl(path, params): new URL(path, endpoint) throws when the endpoint is
\* no absolute URL; params is an option (a set of at most one entry list)
buildUrl(base, path, params) ==
  IF base \notin DOMAIN Origins
  THEN [threw |-> TRUE, error |-> InvalidUrl, search |-> <<>>, url |-> ""]
  ELSE LET parts == PathParts[path]
           search == IF params = {} THEN parts.search
                     ELSE ApplyParams(parts.search, CHOOSE p \in params : TRUE)
       IN  [threw |-> FALSE, error |-> NoOutcome, search |-> search,
            url |-> Origins[base] \o parts.pathname
                    \o (IF search = <<>> THEN "" ELSE "?" \o SearchText(search))]

(***************************************************************************)
(* Construction.                                                           *)
(***************************************************************************)
\* getEnv(key): process.env[key] where the runtime has a process.env
getEnv(env, key) == IF env.hasProcessEnv THEN env.vars[key] ELSE Undefined

\* a faulty constructor that also rejects a client left without a fetch function
ApiClientNewStrict(config, env) ==
  LET ep == OrElse(OrElse(config.endpoint, getEnv(env, "ENTROLYTICS_API_ENDPOINT")), "")
  IN  [ endpoint |-> ep,
        bearerToken |-> OrElse(config.bearerToken, getEnv(env, "ENTROLYTICS_BEARER_TOKEN")),
        apiKey |-> OrElse(config.apiKey, getEnv(env, "ENTROLYTICS_API_KEY")),
        userId |-> OrElse(config.userId, getEnv(env, "ENTROLYTICS_USER_ID")),
        secret |-> OrElse(config.secret, getEnv(env, "ENTROLYTICS_SECRET")),
        fetchFn |-> config.fetch \/ env.globalFetch,
        retries |-> Coalesce(config.retries, DefaultRetries),
        retryDelay |-> Coalesce(config.retryDelay, DefaultRetryDelay),
        threw |-> ~Truthy(ep) \/ ~(config.fetch \/ env.globalFetch) ]

\* new ApiClient(config): the fields, or the configuration error
ApiClientNew(config, env) ==
  LET ep == OrElse(OrElse(config.endpoint, getEnv(env, "ENTROLYTICS_API_ENDPOINT")), "")
  IN  [ endpoint |-> ep,
        bearerToken |-> OrElse(config.bearerToken, getEnv(env, "ENTROLYTICS_BEARER_TOKEN")),
        apiKey |-> OrElse(config.apiKey, getEnv(env, "ENTROLYTICS_API_KEY")),
        userId |-> OrElse(config.userId, getEnv(env, "ENTROLYTICS_USER_ID")),
        secret |-> OrElse(config.secret, getEnv(env, "ENTROLYTICS_SECRET")),
        fetchFn |-> config.fetch \/ env.globalFetch,
        retries |-> Coalesce(config.retries, DefaultRetries),
        retryDelay |-> Coalesce(config.retryDelay, DefaultRetryDelay),
        threw |-> ~Truthy(ep) ]

EnvKeys ==
  {"ENTROLYTICS_API_ENDPOINT", "ENTROLYTICS_BEARER_TOKEN", "ENTROLYTICS_API_KEY",
   "ENTROLYTICS_USER_ID", "ENTROLYTICS_SECRET"}

\* a runtime with process.env, no environment variable set and no global fetch
Runtime(buffer) ==
  [ hasProcessEnv |-> TRUE, vars |-> [k \in EnvKeys |-> Undefined],
    globalFetch |-> FALSE, hasBuffer |-> buffer ]

Config(ep, token, key, uid, sec, f, n, d) ==
  [ endpoint |-> ep, bearerToken |-> token, apiKey |-> key, userId |-> uid,
    secret |-> sec, fetch |-> f, retries |-> n, retryDelay |-> d ]

ValidEndpoint == "https://api.example.com/api"

\* retries as configured: absent, or -1 .. MaxRetries
RetriesInputs == {{}} \cup { {n} : n \in (-1)..MaxRetries }

\* The <<config, runtime>> pairs explored:
\*  - every combination of credentials, with one retry;
\*  - the legacy pair alone on a runtime without Buffer, with both kinds of user id;
\*  - every retries value and both retry delays, with an API key;
\*  - an endpoint that is no absolute URL, and a client without any fetch.
Setups ==
  { <<Config(ValidEndpoint, token, key, uid, sec, TRUE, {1}, {}), Runtime(TRUE)>> :
      token \in {Undefined, "tokA"}, key \in {Undefined, "key1"},
      uid \in {Undefined, "user1"}, sec \in {Undefined, "s3cret"} }
  \cup
  { <<Config(ValidEndpoint, Undefined, Undefined, uid, "s3cret", TRUE, {1}, {}),
      Runtime(FALSE)>> : uid \in {"user1", "user-snowman"} }
  \cup
  { <<Config(ValidEndpoint, Undefined, "key1", Undefined, Undefined, TRUE, n, d),
      Runtime(TRUE)>> : n \in RetriesInputs, d \in {{}, {250}} }
  \cup
  { <<Config("api.example.com", Undefined, "key1", Undefined, Undefined, TRUE, {1}, {}),
      Runtime(TRUE)>>,
    <<Config(ValidEndpoint, Undefined, "key1", Undefined, Undefined, FALSE, {1}, {}),
      Runtime(TRUE)>> }

(***************************************************************************)
(* State.                                                                  *)
(***************************************************************************)
VARIABLES
  endpoint, bearerToken, apiKey, userId, secret, fetchFn, retries, retryDelay,
  hasBuffer,     \* the runtime: typeof Buffer !== 'undefined'
  tokenSets,     \* number of setBearerToken calls so far
  pc,            \* "idle", "loop", "fetching", "sleeping", "done"
  method, body, headers, url,   \* the call's destructured options and URL
  attempt,       \* the loop counter
  lastError,     \* <<>> for null, else <<envelope>>
  lastAuth,      \* <<>>, else <<the latest getAuthHeaders(): the token it read,
                 \* whether it threw, the headers it returned>>
  lastSent,      \* <<>>, else <<the url and fetchOptions of the latest fetch call>>
  fetchCalls,    \* number of calls of fetchFn made by the call
  sleeps,        \* the delays slept so far, in order
  lastOutcome,   \* what the latest attempt met
  allRetryable,  \* every attempt so far met a non-ok response of status 429 or >= 500
  allThrew,      \* every attempt so far met an exception thrown by the transport
  result,        \* <<>>, else <<the envelope the call resolved with>>
  rejected,      \* <<>>, else <<the error the call rejected with>>
  ctor,          \* one `new ApiClient(config)`: its config, runtime and outcome
  urlCase,       \* one buildUrl(path, params): its arguments and outcome
  calls,         \* the invocations of request() running together on the client
  wire,          \* number of requests handed to the transport by those
  edge,          \* one wrapper of createEdgeFetch and one call of it
  runtimeCase    \* one runtime environment and what detectRuntime made of it

clientVars ==
  <<endpoint, bearerToken, apiKey, userId, secret, fetchFn, retries, retryDelay,
    hasBuffer>>
optionVars == <<method, body, headers, url>>
historyVars == <<lastAuth, lastSent, fetchCalls, sleeps, lastOutcome, allRetryable, allThrew>>
callVars == <<pc, attempt, lastError, result, rejected>>
singleVars == <<optionVars, historyVars, callVars>>
otherVars == <<ctor, urlCase, calls, wire, edge, runtimeCase>>
vars == <<clientVars, tokenSets, singleVars, otherVars>>

\* the values of ctor, urlCase, edge and runtimeCase where the constructor,
\* buildUrl, the edge wrapper and detectRuntime are not followed
NoCtor == [phase |-> "none"]
NoUrlCase == [phase |-> "none"]
NoEdge == [pc |-> "none"]
NoRuntimeCase == [phase |-> "none"]

\* the labels of the invocations followed together
CallIds == {1, 2}

\* an invocation of request() that has not been made
IdleCall ==
  [pc |-> "idle", attempt |-> 0, lastError |-> <<>>, sent |-> <<>>,
   outcomes |-> <<>>, sleeps |-> <<>>, result |-> <<>>]

\* the fields the constructor leaves for a <<config, runtime>> pair
InitClient(setup) ==
  LET env == setup[2]
      c == ApiClientNew(setup[1], env)
  IN  /\ ~c.threw
      /\ endpoint = c.endpoint
      /\ bearerToken = c.bearerToken
      /\ apiKey = c.apiKey
      /\ userId = c.userId
      /\ secret = c.secret
      /\ fetchFn = c.fetchFn
      /\ retries = c.retries
      /\ retryDelay = c.retryDelay
      /\ hasBuffer = env.hasBuffer

\* no call has been made
InitCall ==
  /\ tokenSets = 0
  /\ pc = "idle"
  /\ method = "GET"
  /\ body = JsUndefined
  /\ headers = EmptyHeaders
  /\ url = ""
  /\ attempt = 0
  /\ lastError = <<>>
  /\ lastAuth = <<>>
  /\ lastSent = <<>>
  /\ fetchCalls = 0
  /\ sleeps = <<>>
  /\ lastOutcome = NoOutcome
  /\ allRetryable = TRUE
  /\ allThrew = TRUE
  /\ result = <<>>
  /\ rejected = <<>>

Init ==
  /\ \E setup \in Setups : InitClient(setup)
  /\ InitCall
  /\ ctor = NoCtor
  /\ urlCase = NoUrlCase
  /\ calls = [c \in CallIds |-> IdleCall]
  /\ wire = 0
  /\ edge = NoEdge
  /\ runtimeCase = NoRuntimeCase

(***************************************************************************)
(* request(): envelopes and the pieces of one loop iteration.              *)
(***************************************************************************)
Success(status, data) == [ok |-> TRUE, status |-> status, data |-> data]
Failure(status, error) == [ok |-> FALSE, status |-> status, error |-> error]

\* the defensive envelope returned when no candidate was stored
Fallback == Failure(0, "Request failed after retries")

\* a faulty parse that substitutes null for a body json() rejects
ParseJsonNull(b) == IF b.kind = "unparsable" THEN NullBody ELSE b

\* await response.json().catch(() => ({}))
ParseJson(b) == IF b.kind = "unparsable" THEN EmptyObject ELSE b

\* the error text of a non-ok response whose parsed body is not null
ErrorMessage(data, status) ==
  IF data.error.type = "string" THEN data.error.value
  ELSE IF data.message.type = "string" THEN data.message.value
  ELSE "HTTP " \o ToString(status)

\* a faulty catch that reports every exception as 'Network error'
CatchMessageGeneric(e) == "Network error"

\* error instanceof Error ? error.message : 'Network error'
CatchMessage(e) == IF e.thrown.isError THEN e.thrown.message ELSE "Network error"

\* a faulty catch block that rethrows once the attempts are exhausted
CatchBranchRethrows(e) ==
  IF AttemptsRemain(attempt, retries)
  THEN /\ lastError' = <<Failure(0, CatchMessage(e))>>
       /\ sleeps' = Append(sleeps, BackoffDelay(retryDelay, attempt))
       /\ pc' = "sleeping"
       /\ UNCHANGED <<attempt, result, rejected>>
  ELSE /\ rejected' = <<e>>
       /\ pc' = "done"
       /\ UNCHANGED <<attempt, lastError, sleeps, result>>

\* the catch block, and what follows it: a backoff sleep when attempts remain,
\* else the loop's increment
CatchBranch(e) ==
  /\ lastError' = <<Failure(0, CatchMessage(e))>>
  /\ IF AttemptsRemain(attempt, retries)
     THEN /\ sleeps' = Append(sleeps, BackoffDelay(retryDelay, attempt))
          /\ pc' = "sleeping"
          /\ attempt' = attempt
     ELSE /\ sleeps' = sleeps
          /\ pc' = "loop"
          /\ attempt' = attempt + 1
  /\ UNCHANGED <<result, rejected>>

\* a faulty branch that keeps the candidate an earlier attempt stored
FailureBranchKeepsFirst(status, data) ==
  LET candidate == IF lastError = <<>> THEN Failure(status, ErrorMessage(data, status))
                   ELSE lastError[1]
  IN  /\ lastError' = <<candidate>>
      /\ IF isRetryable(status) /\ AttemptsRemain(attempt, retries)
         THEN /\ sleeps' = Append(sleeps, BackoffDelay(retryDelay, attempt))
              /\ pc' = "sleeping"
              /\ result' = result
         ELSE /\ sleeps' = sleeps
              /\ pc' = "done"
              /\ result' = <<candidate>>
      /\ UNCHANGED <<attempt, rejected>>

\* the branch of a non-ok response whose body is not null
FailureBranch(status, data) ==
  LET candidate == Failure(status, ErrorMessage(data, status))
  IN  /\ lastError' = <<candidate>>
      /\ IF isRetryable(status) /\ AttemptsRemain(attempt, retries)
         THEN /\ sleeps' = Append(sleeps, BackoffDelay(retryDelay, attempt))
              /\ pc' = "sleeping"
              /\ result' = result
         ELSE /\ sleeps' = sleeps
              /\ pc' = "done"
              /\ result' = <<candidate>>
      /\ UNCHANGED <<attempt, rejected>>

\* a faulty success branch that backs off and retries while attempts remain
SuccessBranchRetries(status, data) ==
  IF AttemptsRemain(attempt, retries)
  THEN /\ sleeps' = Append(sleeps, BackoffDelay(retryDelay, attempt))
       /\ pc' = "sleeping"
       /\ UNCHANGED <<attempt, lastError, result, rejected>>
  ELSE /\ result' = <<Success(status, data)>>
       /\ pc' = "done"
       /\ UNCHANGED <<attempt, lastError, sleeps, rejected>>

\* the return of an ok response
SuccessBranch(status, data) ==
  /\ result' = <<Success(status, data)>>
  /\ pc' = "done"
  /\ UNCHANGED <<attempt, lastError, sleeps, rejected>>

\* a faulty handler that takes every status below 400 for a success
HandleResponseByStatus(resp) ==
  LET data == ParseJson(resp.body)
  IN  IF resp.status >= 400
      THEN IF data.kind = "null"
           THEN CatchBranch(NullPropertyError)
           ELSE FailureBranch(resp.status, data)
      ELSE SuccessBranch(resp.status, data)

\* everything after `await this.fetchFn(...)` resolved with resp
HandleResponse(resp) ==
  LET data == ParseJson(resp.body)
  IN  IF ~resp.ok
      THEN IF data.kind = "null"
           THEN CatchBranch(NullPropertyError)
           ELSE FailureBranch(resp.status, data)
      ELSE SuccessBranch(resp.status, data)

\* values of Date.now()
Timestamps == {"1700000000000", "1700000000001"}

\* fetchOptions.body
RequestBody(b) ==
  IF JsTruthy(b) THEN [present |-> TRUE, text |-> JsonStringify(b).text]
  ELSE NoRequestBody

(***************************************************************************)
(* Actions.                                                                *)
(***************************************************************************)
\* request(path, { method, body, params, headers }) up to the loop
StartCall(path, m, b, params, hdrs) ==
  /\ UNCHANGED otherVars
  /\ pc = "idle"
  /\ method' = m
  /\ body' = b
  /\ headers' = hdrs
  /\ LET u == buildUrl(endpoint, path, params)
     IN  IF u.threw
         THEN /\ rejected' = <<u.error>>
              /\ pc' = "done"
              /\ url' = url
         ELSE /\ rejected' = rejected
              /\ pc' = "loop"
              /\ url' = u.url
  /\ attempt' = 0
  /\ lastError' = <<>>
  /\ UNCHANGED <<clientVars, tokenSets, historyVars, result>>

\* one iteration of the loop up to `await this.fetchFn(url, fetchOptions)`
AttemptStart ==
  /\ UNCHANGED otherVars
  /\ pc = "loop"
  /\ LoopCondition(attempt, retries)
  /\ \E now \in Timestamps :
       LET auth == getAuthHeaders(bearerToken, apiKey, userId, secret, now, hasBuffer)
           early ==
             IF auth.threw THEN <<auth.error>>
             ELSE IF JsTruthy(body) /\ JsonStringify(body).threw
             THEN <<JsonStringify(body).error>>
             ELSE IF ~fetchFn THEN <<NotAFunction>>
             ELSE <<>>
       IN  /\ lastAuth' = << [ token |-> bearerToken, threw |-> auth.threw,
                                headers |-> auth.headers ] >>
           /\ IF early # <<>>
              THEN /\ CatchBranch(early[1])
                   /\ lastOutcome' = PreFetch(early[1])
                   /\ allRetryable' = FALSE
                   /\ allThrew' = FALSE
                   /\ UNCHANGED <<lastSent, fetchCalls>>
              ELSE /\ lastSent' = << [ url |-> url, method |-> method,
                                       headers |-> ComposeHeaders(auth.headers, headers),
                                       body |-> RequestBody(body) ] >>
                   /\ fetchCalls' = fetchCalls + 1
                   /\ pc' = "fetching"
                   /\ UNCHANGED <<attempt, lastError, sleeps, result, rejected,
                                  lastOutcome, allRetryable, allThrew>>
  /\ UNCHANGED <<clientVars, tokenSets, optionVars>>

\* the transport answers with a response
FetchResolves ==
  /\ UNCHANGED otherVars
  /\ pc = "fetching"
  /\ \E resp \in Responses :
       /\ HandleResponse(resp)
       /\ lastOutcome' = resp
       /\ allRetryable' = (allRetryable /\ ~resp.ok
                            /\ (resp.status = 429 \/ resp.status >= 500))
  /\ allThrew' = FALSE
  /\ UNCHANGED <<clientVars, tokenSets, optionVars, lastAuth, lastSent, fetchCalls>>

\* the transport throws
FetchRejects ==
  /\ UNCHANGED otherVars
  /\ pc = "fetching"
  /\ \E e \in TransportErrors :
       /\ CatchBranch(e)
       /\ lastOutcome' = e
  /\ allRetryable' = FALSE
  /\ UNCHANGED <<clientVars, tokenSets, optionVars, lastAuth, lastSent, fetchCalls,
                 allThrew>>

\* the backoff timer fires: `continue` or the end of the catch, then attempt++
SleepFires ==
  /\ UNCHANGED otherVars
  /\ pc = "sleeping"
  /\ attempt' = attempt + 1
  /\ pc' = "loop"
  /\ UNCHANGED <<clientVars, tokenSets, optionVars, historyVars, lastError, result,
                 rejected>>

\* the loop condition fails: return lastError ?? the fallback envelope
LoopExit ==
  /\ UNCHANGED otherVars
  /\ pc = "loop"
  /\ ~LoopCondition(attempt, retries)
  /\ result' = IF lastError = <<>> THEN <<Fallback>> ELSE lastError
  /\ pc' = "done"
  /\ UNCHANGED <<clientVars, tokenSets, optionVars, historyVars, attempt, lastError,
                 rejected>>

\* a faulty setter that also forgets the API key
setBearerTokenDropsKey ==
  /\ UNCHANGED otherVars
  /\ pc \in {"idle", "fetching", "sleeping"}
  /\ tokenSets < MaxTokenSets
  /\ \E token \in {"tokB", ""} : bearerToken' = token
  /\ apiKey' = Undefined
  /\ tokenSets' = tokenSets + 1
  /\ UNCHANGED <<endpoint, userId, secret, fetchFn, retries, retryDelay,
                 hasBuffer, optionVars, historyVars, callVars>>

\* setBearerToken(token): runs between the steps of the call, that is before the
\* call or while it awaits the transport or a backoff timer (the code between
\* two awaits runs without interruption); the model follows the client until
\* the call has settled
setBearerToken ==
  /\ UNCHANGED otherVars
  /\ pc \in {"idle", "fetching", "sleeping"}
  /\ tokenSets < MaxTokenSets
  /\ \E token \in {"tokB", ""} : bearerToken' = token
  /\ tokenSets' = tokenSets + 1
  /\ UNCHANGED <<endpoint, apiKey, userId, secret, fetchFn, retries, retryDelay,
                 hasBuffer, optionVars, historyVars, callVars>>

(***************************************************************************)
(* The public call surface, with the inputs explored.                      *)
(***************************************************************************)
Paths == {"/websites"}

ParamInputs ==
  { {}, { << <<"page", Js("number", "2")>>, <<"q", JsUndefined>> >> } }

BodyInputs == { JsUndefined, Js("number", "0"), Js("object", "{name:x}"), Circular }

CallerHeaders ==
  { [k \in {"Authorization"} |-> "Bearer caller"],
    [k \in {"x-entrolytics-api-key"} |-> "caller-key"],
    [k \in {"Content-Type"} |-> "text/plain"] }

\* options objects: each of method and headers is an option (absent: {})
OptionInputs ==
  { [method |-> {}, body |-> JsUndefined, params |-> {}, headers |-> {}] }
  \cup
  { [method |-> {"POST"}, body |-> Js("object", "{name:x}"), params |-> {},
     headers |-> {h}] : h \in CallerHeaders }

\* request(path, options): method defaults to 'GET', headers to {}
request ==
  \E path \in Paths, options \in OptionInputs :
    StartCall(path,
              IF options.method = {} THEN "GET" ELSE CHOOSE m \in options.method : TRUE,
              options.body, options.params,
              IF options.headers = {} THEN EmptyHeaders
              ELSE CHOOSE h \in options.headers : TRUE)

get ==
  \E path \in Paths, params \in ParamInputs :
    StartCall(path, "GET", JsUndefined, params, EmptyHeaders)

post ==
  \E path \in Paths, b \in BodyInputs :
    StartCall(path, "POST", b, {}, EmptyHeaders)

put ==
  \E path \in Paths, b \in {Js("object", "{name:x}")} :
    StartCall(path, "PUT", b, {}, EmptyHeaders)

delete ==
  \E path \in Paths : StartCall(path, "DELETE", JsUndefined, {}, EmptyHeaders)

patch ==
  \E path \in Paths, b \in {JsUndefined} :
    StartCall(path, "PATCH", b, {}, EmptyHeaders)

Next ==
  \/ request
  \/ get
  \/ post
  \/ put
  \/ delete
  \/ patch
  \/ AttemptStart
  \/ FetchResolves
  \/ FetchRejects
  \/ SleepFires
  \/ LoopExit
  \/ setBearerToken

Spec == Init /\ [][Next]_vars

\* The same program where whatever the call waits for happens: the code between
\* two awaits runs on (AttemptStart, LoopExit), the transport answers or throws,
\* and the backoff timer fires.  Nothing obliges the caller to call, or to call
\* setBearerToken.
Fairness ==
  /\ WF_vars(AttemptStart)
  /\ WF_vars(LoopExit)
  /\ WF_vars(FetchResolves \/ FetchRejects)
  /\ WF_vars(SleepFires)

SpecLive == Spec /\ Fairness

(***************************************************************************)
(* The constructor on its own: one `new ApiClient(config)` on one runtime.  *)
(***************************************************************************)
\* the Error thrown at lines 62-66
ConfigError ==
  Thrown(TRUE, "Entrolytics API endpoint is required. "
               \o "Set ENTROLYTICS_API_ENDPOINT or pass endpoint in config.")

\* a runtime: whether process.env exists, its variables, whether globalThis.fetch
\* exists
Env(hasEnv, envVars, globalFetch) ==
  [ hasProcessEnv |-> hasEnv, vars |-> envVars, globalFetch |-> globalFetch,
    hasBuffer |-> TRUE ]

\* process.env as explored: nothing set, only the endpoint set, everything set
EnvVarInputs ==
  { [k \in EnvKeys |-> Undefined],
    [k \in EnvKeys |-> IF k = "ENTROLYTICS_API_ENDPOINT"
                       THEN "https://env.example.com/api" ELSE Undefined],
    [k \in EnvKeys |-> "env:" \o k] }

CtorEnvs ==
  { Env(FALSE, [k \in EnvKeys |-> Undefined], gf) : gf \in BOOLEAN }
  \cup { Env(TRUE, v, gf) : v \in EnvVarInputs, gf \in BOOLEAN }

\* the config objects explored: every field absent, empty or set
CtorConfigs ==
  { Config(ep, token, key, uid, sec, f, n, d) :
      ep \in {Undefined, "", ValidEndpoint, "api.example.com"},
      token \in {Undefined, "", "tokA"}, key \in {Undefined, "key1"},
      uid \in {Undefined, "", "user1"}, sec \in {Undefined, "s3cret"},
      f \in BOOLEAN, n \in RetriesInputs, d \in {{}, {0}} }

\* the client the other variables hold while the constructor is followed
PinnedSetup ==
  <<Config(ValidEndpoint, Undefined, "key1", Undefined, Undefined, TRUE, {1}, {}),
    Runtime(TRUE)>>

InitCtor ==
  /\ InitClient(PinnedSetup)
  /\ InitCall
  /\ \E config \in CtorConfigs, env \in CtorEnvs :
       ctor = [phase |-> "new", config |-> config, env |-> env,
               client |-> <<>>, error |-> <<>>]
  /\ urlCase = NoUrlCase
  /\ calls = [c \in CallIds |-> IdleCall]
  /\ wire = 0
  /\ edge = NoEdge
  /\ runtimeCase = NoRuntimeCase

\* new ApiClient(config) runs: the instance, or the thrown error
Construct ==
  /\ ctor.phase = "new"
  /\ LET c == ApiClientNew(ctor.config, ctor.env)
     IN  ctor' = [ctor EXCEPT !.phase = IF c.threw THEN "threw" ELSE "constructed",
                              !.client = IF c.threw THEN <<>> ELSE <<c>>,
                              !.error = IF c.threw THEN <<ConfigError>> ELSE <<>>]
  /\ UNCHANGED <<clientVars, tokenSets, singleVars, urlCase, calls, wire, edge, runtimeCase>>

NextCtor == Construct

SpecCtor == InitCtor /\ [][NextCtor]_vars

(***************************************************************************)
(* buildUrl on its own: one call with a path and a params map.             *)
(***************************************************************************)
UrlPaths == DOMAIN PathParts

ParamKeys == {"page", "q"}

ParamValues ==
  { JsUndefined, Js("string", "x"), Js("string", ""), Js("boolean", "false"),
    Js("number", "0") }

\* Object.entries(params) of the maps explored: up to two entries, in either
\* insertion order, each key once
ParamLists ==
  { <<>> }
  \cup { << <<k, v>> >> : k \in ParamKeys, v \in ParamValues }
  \cup { l \in { << <<k1, v1>>, <<k2, v2>> >> :
                    k1 \in ParamKeys, k2 \in ParamKeys,
                    v1 \in ParamValues, v2 \in ParamValues } : l[1][1] # l[2][1] }

InitUrl ==
  /\ InitClient(PinnedSetup)
  /\ InitCall
  /\ ctor = NoCtor
  /\ \E path \in UrlPaths, params \in {{}} \cup { {l} : l \in ParamLists } :
       urlCase = [phase |-> "new", path |-> path, params |-> params, out |-> <<>>]
  /\ calls = [c \in CallIds |-> IdleCall]
  /\ wire = 0
  /\ edge = NoEdge
  /\ runtimeCase = NoRuntimeCase

\* this.buildUrl(path, params) runs
BuildUrl ==
  /\ urlCase.phase = "new"
  /\ urlCase' = [urlCase EXCEPT
                   !.phase = "built",
                   !.out = <<buildUrl(endpoint, urlCase.path, urlCase.params)>>]
  /\ UNCHANGED <<clientVars, tokenSets, singleVars, ctor, calls, wire, edge, runtimeCase>>

NextUrl == BuildUrl

SpecUrl == InitUrl /\ [][NextUrl]_vars

(***************************************************************************)
(* Two invocations of request() interleaved on one client, with            *)
(* setBearerToken between their steps.  Each invocation has its own locals  *)
(* (attempt, lastError); the client's fields are shared.                    *)
(***************************************************************************)
\* the clients explored: a bearer token, with and without an API key behind it
SetupsConc ==
  { <<Config(ValidEndpoint, "tokA", key, Undefined, Undefined, TRUE, {1}, {}),
      Runtime(TRUE)>> : key \in {Undefined, "key1"} }

\* what the transport does to an attempt of these invocations
ConcResponses ==
  { Response(200, EmptyObject), Response(404, Obj(Str("bad input"), NoProp)),
    Response(503, EmptyObject) }
ConcErrors == { Thrown(TRUE, "fetch failed") }

\* a faulty loop whose counter is a field shared by the invocations
AttemptShared(cs, c) == cs[1].attempt

\* the loop counter an invocation reads: `let attempt` is its own local
AttemptOf(cs, c) == cs[c].attempt

\* a faulty derivation that keeps the headers of the invocation's first attempt
AttemptAuthCached(call, now) ==
  IF call.sent = <<>>
  THEN getAuthHeaders(bearerToken, apiKey, userId, secret, now, hasBuffer)
  ELSE [threw |-> FALSE, error |-> NoOutcome, headers |-> call.sent[1].auth]

\* ...this.getAuthHeaders() inside the loop body
AttemptAuth(call, now) ==
  getAuthHeaders(bearerToken, apiKey, userId, secret, now, hasBuffer)

\* the catch block of an invocation whose loop counter reads a
CallCatch(call, a, e) ==
  LET stored == [call EXCEPT !.lastError = <<Failure(0, CatchMessage(e))>>]
  IN  IF AttemptsRemain(a, retries)
      THEN [stored EXCEPT !.sleeps = Append(@, BackoffDelay(retryDelay, a)),
                          !.pc = "sleeping"]
      ELSE [stored EXCEPT !.pc = "loop", !.attempt = a + 1]

\* everything after `await this.fetchFn(...)` resolved with resp
CallResponse(call, a, resp) ==
  LET data == ParseJson(resp.body)
      candidate == Failure(resp.status, ErrorMessage(data, resp.status))
  IN  IF ~resp.ok
      THEN IF data.kind = "null" THEN CallCatch(call, a, NullPropertyError)
           ELSE IF isRetryable(resp.status) /\ AttemptsRemain(a, retries)
           THEN [call EXCEPT !.lastError = <<candidate>>,
                             !.sleeps = Append(@, BackoffDelay(retryDelay, a)),
                             !.pc = "sleeping"]
           ELSE [call EXCEPT !.lastError = <<candidate>>, !.result = <<candidate>>,
                             !.pc = "done"]
      ELSE [call EXCEPT !.result = <<Success(resp.status, data)>>, !.pc = "done"]

ConcUnchanged ==
  UNCHANGED <<clientVars, tokenSets, singleVars, ctor, urlCase, edge, runtimeCase>>

InitConc ==
  /\ \E setup \in SetupsConc : InitClient(setup)
  /\ InitCall
  /\ ctor = NoCtor
  /\ urlCase = NoUrlCase
  /\ calls = [c \in CallIds |-> IdleCall]
  /\ wire = 0
  /\ edge = NoEdge
  /\ runtimeCase = NoRuntimeCase

\* get('/websites') is called: request() up to the loop
CallStart(c) ==
  /\ calls[c].pc = "idle"
  /\ ~buildUrl(endpoint, "/websites", {}).threw
  /\ calls' = [calls EXCEPT ![c].pc = "loop", ![c].attempt = 0]
  /\ wire' = wire
  /\ ConcUnchanged

\* one iteration of the loop up to `await this.fetchFn(url, fetchOptions)`
CallAttempt(c) ==
  /\ calls[c].pc = "loop"
  /\ LoopCondition(AttemptOf(calls, c), retries)
  /\ \E now \in Timestamps :
       LET auth == AttemptAuth(calls[c], now)
           early == IF auth.threw THEN <<auth.error>>
                    ELSE IF ~fetchFn THEN <<NotAFunction>> ELSE <<>>
       IN  IF early # <<>>
           THEN /\ calls' = [calls EXCEPT
                              ![c] = [CallCatch(@, AttemptOf(calls, c), early[1])
                                        EXCEPT !.outcomes = Append(@, PreFetch(early[1]))]]
                /\ wire' = wire
           ELSE /\ calls' = [calls EXCEPT
                              ![c].sent = Append(@, [token |-> bearerToken,
                                                     sets |-> tokenSets,
                                                     auth |-> auth.headers,
                                                     headers |-> ComposeHeaders(auth.headers,
                                                                                EmptyHeaders)]),
                              ![c].pc = "fetching"]
                /\ wire' = wire + 1
  /\ ConcUnchanged

\* the transport answers an invocation with a response
CallResolves(c) ==
  /\ calls[c].pc = "fetching"
  /\ \E resp \in ConcResponses :
       calls' = [calls EXCEPT
                  ![c] = [CallResponse(@, AttemptOf(calls, c), resp)
                            EXCEPT !.outcomes = Append(@, resp)]]
  /\ wire' = wire
  /\ ConcUnchanged

\* the transport throws at an invocation
CallRejects(c) ==
  /\ calls[c].pc = "fetching"
  /\ \E e \in ConcErrors :
       calls' = [calls EXCEPT
                  ![c] = [CallCatch(@, AttemptOf(calls, c), e)
                            EXCEPT !.outcomes = Append(@, e)]]
  /\ wire' = wire
  /\ ConcUnchanged

\* an invocation's backoff timer fires: attempt++
CallWakes(c) ==
  /\ calls[c].pc = "sleeping"
  /\ calls' = [calls EXCEPT ![c].pc = "loop", ![c].attempt = AttemptOf(calls, c) + 1]
  /\ wire' = wire
  /\ ConcUnchanged

\* an invocation's loop condition fails: return lastError ?? the fallback
CallExit(c) ==
  /\ calls[c].pc = "loop"
  /\ ~LoopCondition(AttemptOf(calls, c), retries)
  /\ calls' = [calls EXCEPT
                 ![c].result = IF calls[c].lastError = <<>> THEN <<Fallback>>
                               ELSE calls[c].lastError,
                 ![c].pc = "done"]
  /\ wire' = wire
  /\ ConcUnchanged

NextConc ==
  \/ \E c \in CallIds : CallStart(c)
  \/ \E c \in CallIds : CallAttempt(c)
  \/ \E c \in CallIds : CallResolves(c)
  \/ \E c \in CallIds : CallRejects(c)
  \/ \E c \in CallIds : CallWakes(c)
  \/ \E c \in CallIds : CallExit(c)
  \/ setBearerToken

SpecConc == InitConc /\ [][NextConc]_vars

(***************************************************************************)
(* createEdgeFetch: one wrapper and one call of the edgeFetch it returns.   *)
(***************************************************************************)
EdgeDefaultRetries == 3
EdgeDefaultRetryDelay == 1000
EdgeDefaultTimeout == 30000

\* an Error object: its name and message
EdgeError(name, message) == [name |-> name, message |-> message]

\* response.statusText
StatusText ==
  [st \in {200, 304, 404, 500} |->
     IF st = 200 THEN "OK" ELSE IF st = 304 THEN "Not Modified"
     ELSE IF st = 404 THEN "Not Found" ELSE "Internal Server Error"]

\* what fetch does to an attempt: a response, a thrown Error, a thrown value
\* that is no Error, or the rejection that follows controller.abort()
EdgeResponse(st) ==
  [type |-> "response", status |-> st, ok |-> (st >= 200 /\ st <= 299),
   statusText |-> StatusText[st], isError |-> FALSE, name |-> "", message |-> ""]
EdgeThrown(isErr, name, message) ==
  [type |-> "throw", status |-> 0, ok |-> FALSE, statusText |-> "",
   isError |-> isErr, name |-> name, message |-> message]
EdgeResponses == { EdgeResponse(st) : st \in DOMAIN StatusText }
EdgeThrows == { EdgeThrown(TRUE, "TypeError", "fetch failed"), EdgeThrown(FALSE, "", "boom") }
AbortRejection == EdgeThrown(TRUE, "AbortError", "This operation was aborted")

\* the options objects explored: defaultOptions of createEdgeFetch, and the
\* options of a call (an absent options object reads as every field absent)
EdgeDefaultInputs ==
  { [retries |-> n, retryDelay |-> {}, timeout |-> t] :
      n \in {{}, {1}}, t \in {{}, {10000}} }
EdgeOptionInputs ==
  { [retries |-> n, retryDelay |-> d, timeout |-> t] :
      n \in RetriesInputs, d \in {{}, {250}}, t \in {{}, {0}, {5000}} }

\* options?.x ?? x, where x was destructured with its default
finalRetries(e) == Coalesce(e.options.retries, Coalesce(e.defaults.retries, EdgeDefaultRetries))
finalDelay(e) ==
  Coalesce(e.options.retryDelay, Coalesce(e.defaults.retryDelay, EdgeDefaultRetryDelay))
finalTimeout(e) ==
  Coalesce(e.options.timeout, Coalesce(e.defaults.timeout, EdgeDefaultTimeout))

\* the end of a loop iteration that neither returned nor threw: the backoff
\* wait when attempts remain, else attempt++
EdgeBackoff(e) ==
  IF e.attempt < finalRetries(e)
  THEN [e EXCEPT !.sleeps = Append(@, finalDelay(e) * Pow2(e.attempt)),
                 !.pc = "sleeping"]
  ELSE [e EXCEPT !.pc = "loop", !.attempt = @ + 1]

\* a faulty catch block that treats an abort like any other error
EdgeCatchRetriesAbort(e, thrown) ==
  EdgeBackoff([e EXCEPT !.lastError =
                 << IF thrown.isError THEN EdgeError(thrown.name, thrown.message)
                    ELSE EdgeError("Error", thrown.message) >>])

\* the catch block
EdgeCatch(e, thrown) ==
  LET err == IF thrown.isError THEN EdgeError(thrown.name, thrown.message)
             ELSE EdgeError("Error", thrown.message)
      stored == [e EXCEPT !.lastError = <<err>>]
  IN  IF err.name = "AbortError"
      THEN [stored EXCEPT
              !.pc = "threw",
              !.thrown = << EdgeError("Error", "Request timeout after "
                                        \o ToString(finalTimeout(e)) \o "ms") >>]
      ELSE EdgeBackoff(stored)

\* everything after `await fetch(...)` resolved with resp
EdgeHandle(e, resp) ==
  IF resp.ok \/ (resp.status >= 400 /\ resp.status < 500)
  THEN [e EXCEPT !.pc = "returned", !.result = <<resp>>]
  ELSE EdgeBackoff([e EXCEPT !.lastError =
                      << EdgeError("Error", "HTTP " \o ToString(resp.status) \o ": "
                                             \o resp.statusText) >>])

EdgeUnchanged ==
  UNCHANGED <<clientVars, tokenSets, singleVars, ctor, urlCase, calls, wire, runtimeCase>>

\* createEdgeFetch(defaultOptions) has returned a wrapper
InitEdge ==
  /\ InitClient(PinnedSetup)
  /\ InitCall
  /\ ctor = NoCtor
  /\ urlCase = NoUrlCase
  /\ calls = [c \in CallIds |-> IdleCall]
  /\ wire = 0
  /\ \E d \in EdgeDefaultInputs :
       edge = [pc |-> "idle", defaults |-> d,
               options |-> [retries |-> {}, retryDelay |-> {}, timeout |-> {}],
               attempt |-> 0, lastError |-> <<>>, fetchCalls |-> 0, sleeps |-> <<>>,
               outcomes |-> <<>>, result |-> <<>>, thrown |-> <<>>]
  /\ runtimeCase = NoRuntimeCase

\* edgeFetch(input, options) is called
edgeFetch ==
  /\ edge.pc = "idle"
  /\ \E o \in EdgeOptionInputs : edge' = [edge EXCEPT !.options = o, !.pc = "loop"]
  /\ EdgeUnchanged

\* one iteration up to `await fetch(input, ...)`, with the abort timer armed
EdgeAttempt ==
  /\ edge.pc = "loop"
  /\ edge.attempt <= finalRetries(edge)
  /\ edge' = [edge EXCEPT !.pc = "fetching", !.fetchCalls = @ + 1]
  /\ EdgeUnchanged

\* fetch resolves before the timer fires
EdgeResolves ==
  /\ edge.pc = "fetching"
  /\ \E resp \in EdgeResponses :
       edge' = [EdgeHandle(edge, resp) EXCEPT !.outcomes = Append(@, resp)]
  /\ EdgeUnchanged

\* fetch rejects before the timer fires
EdgeRejects ==
  /\ edge.pc = "fetching"
  /\ \E thrown \in EdgeThrows :
       edge' = [EdgeCatch(edge, thrown) EXCEPT !.outcomes = Append(@, thrown)]
  /\ EdgeUnchanged

\* the timer fires: controller.abort(), and fetch rejects with an AbortError
EdgeTimeout ==
  /\ edge.pc = "fetching"
  /\ edge' = [EdgeCatch(edge, AbortRejection) EXCEPT !.outcomes = Append(@, AbortRejection)]
  /\ EdgeUnchanged

\* the backoff timer fires: attempt++
EdgeSleepFires ==
  /\ edge.pc = "sleeping"
  /\ edge' = [edge EXCEPT !.pc = "loop", !.attempt = @ + 1]
  /\ EdgeUnchanged

\* the loop condition fails: throw lastError || new Error('Request failed')
EdgeLoopExit ==
  /\ edge.pc = "loop"
  /\ ~(edge.attempt <= finalRetries(edge))
  /\ edge' = [edge EXCEPT
                !.pc = "threw",
                !.thrown = IF edge.lastError = <<>>
                           THEN <<EdgeError("Error", "Request failed")>>
                           ELSE edge.lastError]
  /\ EdgeUnchanged

NextEdge ==
  \/ edgeFetch
  \/ EdgeAttempt
  \/ EdgeResolves
  \/ EdgeRejects
  \/ EdgeTimeout
  \/ EdgeSleepFires
  \/ EdgeLoopExit

SpecEdge == InitEdge /\ [][NextEdge]_vars

(***************************************************************************)
(* detectRuntime and its helpers: one runtime environment, one call.       *)
(***************************************************************************)
\* The global `process` of an environment: not declared at all, declared with
\* the value undefined, an object without versions, an object whose versions
\* has no node, or Node's.
ProcessKinds == {"undeclared", "undefined", "noVersions", "versionsNoNode", "node"}

\* the environments explored: which globals exist
RuntimeEnvs ==
  { [edgeRuntime |-> er, deno |-> dn, webAssembly |-> wa, response |-> rs,
     process |-> pr, webGlobals |-> wg] :
      er \in BOOLEAN, dn \in BOOLEAN, wa \in BOOLEAN, rs \in BOOLEAN,
      pr \in ProcessKinds, wg \in BOOLEAN }

Runtimes == {"node", "edge", "unknown"}

ProcessReferenceError == Thrown(TRUE, "process is not defined")

\* process?.versions?.node: a reference to an undeclared identifier throws, the
\* optional chain covers only null and undefined values
ProcessVersionsNode(env) ==
  [threw |-> env.process = "undeclared", defined |-> env.process = "node"]

\* detectRuntime(): the runtime, or the error evaluating the condition throws
detectRuntime(env) ==
  IF env.edgeRuntime \/ env.deno THEN [threw |-> FALSE, runtime |-> "edge"]
  ELSE IF env.webAssembly /\ env.response
  THEN IF ProcessVersionsNode(env).threw THEN [threw |-> TRUE, runtime |-> ""]
       ELSE IF ~ProcessVersionsNode(env).defined THEN [threw |-> FALSE, runtime |-> "edge"]
       ELSE [threw |-> FALSE, runtime |-> "node"]
  ELSE IF env.process = "node" THEN [threw |-> FALSE, runtime |-> "node"]
  ELSE [threw |-> FALSE, runtime |-> "unknown"]

NoCapabilities ==
  [runtime |-> "", isNode |-> FALSE, isEdge |-> FALSE, supportsFileSystem |-> FALSE,
   supportsWebCrypto |-> FALSE, supportsFetch |-> FALSE, supportsStreams |-> FALSE]

\* the outcome of one call: the error thrown, or the value by its type
RuntimeOutcome(fn, error, runtime, flag, caps) ==
  [fn |-> fn, error |-> error, runtime |-> runtime, flag |-> flag, caps |-> caps]

AssertionError(expected, actual) ==
  Thrown(TRUE, "Expected " \o expected \o " runtime, but detected " \o actual \o ". "
               \o "This code requires " \o expected
               \o " runtime to function correctly.")

RuntimeUnchanged ==
  UNCHANGED <<clientVars, tokenSets, singleVars, ctor, urlCase, calls, wire, edge>>

InitRuntime ==
  /\ InitClient(PinnedSetup)
  /\ InitCall
  /\ ctor = NoCtor
  /\ urlCase = NoUrlCase
  /\ calls = [c \in CallIds |-> IdleCall]
  /\ wire = 0
  /\ edge = NoEdge
  /\ \E env \in RuntimeEnvs :
       runtimeCase = [phase |-> "new", env |-> env, expected |-> "",
                      out |-> RuntimeOutcome("", <<>>, "", FALSE, NoCapabilities)]

\* the call ends with the outcome out
Finish(expected, out) ==
  /\ runtimeCase.phase = "new"
  /\ runtimeCase' = [runtimeCase EXCEPT !.phase = "done", !.expected = expected,
                                         !.out = out]
  /\ RuntimeUnchanged

\* detectRuntime() is called
DetectRuntime ==
  LET d == detectRuntime(runtimeCase.env)
  IN  Finish("", RuntimeOutcome("detectRuntime",
                                IF d.threw THEN <<ProcessReferenceError>> ELSE <<>>,
                                d.runtime, FALSE, NoCapabilities))

isNodeRuntime ==
  LET d == detectRuntime(runtimeCase.env)
  IN  Finish("", RuntimeOutcome("isNodeRuntime",
                                IF d.threw THEN <<ProcessReferenceError>> ELSE <<>>,
                                "", ~d.threw /\ d.runtime = "node", NoCapabilities))

isEdgeRuntime ==
  LET d == detectRuntime(runtimeCase.env)
  IN  Finish("", RuntimeOutcome("isEdgeRuntime",
                                IF d.threw THEN <<ProcessReferenceError>> ELSE <<>>,
                                "", ~d.threw /\ d.runtime = "edge", NoCapabilities))

getRuntimeCapabilities ==
  LET d == detectRuntime(runtimeCase.env)
      wg == runtimeCase.env.webGlobals
  IN  Finish("", RuntimeOutcome("getRuntimeCapabilities",
                                IF d.threw THEN <<ProcessReferenceError>> ELSE <<>>,
                                "", FALSE,
                                IF d.threw THEN NoCapabilities
                                ELSE [runtime |-> d.runtime,
                                      isNode |-> d.runtime = "node",
                                      isEdge |-> d.runtime = "edge",
                                      supportsFileSystem |-> d.runtime = "node",
                                      supportsWebCrypto |-> wg,
                                      supportsFetch |-> wg,
                                      supportsStreams |-> wg]))

assertRuntime ==
  \E expected \in Runtimes :
    LET d == detectRuntime(runtimeCase.env)
    IN  Finish(expected,
               RuntimeOutcome("assertRuntime",
                              IF d.threw THEN <<ProcessReferenceError>>
                              ELSE IF d.runtime # expected
                              THEN <<AssertionError(expected, d.runtime)>>
                              ELSE <<>>,
                              "", FALSE, NoCapabilities))

NextRuntime ==
  \/ DetectRuntime
  \/ isNodeRuntime
  \/ isEdgeRuntime
  \/ getRuntimeCapabilities
  \/ assertRuntime

SpecRuntime == InitRuntime /\ [][NextRuntime]_vars

(***************************************************************************)
(* Properties.                                                             *)
(***************************************************************************)
EnvelopeFields(r) == DOMAIN r
IsSuccessEnvelope(r) == EnvelopeFields(r) = {"ok", "status", "data"} /\ r.ok
IsFailureEnvelope(r) == EnvelopeFields(r) = {"ok", "status", "error"} /\ ~r.ok
CredentialHeaders ==
  {"Authorization", "x-entrolytics-api-key", "x-entrolytics-share-token"}

C3_Original ==
  (pc = "done" /\ retries >= 0 /\ allRetryable /\ lastOutcome.type = "response")
    => /\ fetchCalls = retries + 1
       /\ result # <<>>
       /\ IsFailureEnvelope(result[1])
       /\ result[1].status = lastOutcome.status

\* C4 as claimed: once an attempt met a non-ok response whose status is neither
\* 0, 429 nor >= 500, the call has returned the failure envelope of that status,
\* without a sleep after that attempt, whatever the body.
C4_Original ==
  ( /\ lastOutcome.type = "response" /\ ~lastOutcome.ok
    /\ lastOutcome.status \notin {0, 429} /\ lastOutcome.status < 500 )
    => /\ pc = "done"
       /\ result # <<>>
       /\ IsFailureEnvelope(result[1])
       /\ result[1].status = lastOutcome.status
       /\ Len(sleeps) = attempt

\* C5: once an attempt, the first or a later one, met a response the transport
\* reports ok, the call has returned { ok: true, status, data: parsed body }
\* (an empty object for an unparsable body), with no sleep and no transport call
\* after it: one sleep per earlier attempt, at most one call per attempt.
C5_SuccessReturnsAtOnce ==
  (lastOutcome.type = "response" /\ lastOutcome.ok)
    => /\ pc = "done"
       /\ result = << [ ok |-> TRUE, status |-> lastOutcome.status,
                        data |-> IF lastOutcome.body.kind = "unparsable"
                                 THEN EmptyObject ELSE lastOutcome.body ] >>
       /\ Len(sleeps) = attempt
       /\ fetchCalls <= attempt + 1
       /\ attempt = 0 => (sleeps = <<>> /\ fetchCalls = 1)

\* a retry after an earlier failure met a success and the call returned it
C5_Witness ==
  /\ pc = "done" /\ attempt = 1 /\ fetchCalls = 2 /\ Len(sleeps) = 1
  /\ lastOutcome.type = "response" /\ lastOutcome.ok
  /\ result # <<>> /\ result[1].ok

\* C6 as claimed: when the transport threw on every attempt, the call made
\* exactly retries + 1 transport calls and returned { ok: false, status: 0,
\* error } with error the message of the last thrown Error, or "Network error"
\* when the thrown value carries no message (an Error whose message is empty,
\* a value that is no Error).
C6_Original ==
  (pc = "done" /\ retries >= 0 /\ allThrew /\ lastOutcome.type = "throw")
    => /\ fetchCalls = retries + 1
       /\ result = << [ ok |-> FALSE, status |-> 0,
                        error |-> IF /\ lastOutcome.thrown.isError
                                     /\ lastOutcome.thrown.message # ""
                                  THEN lastOutcome.thrown.message
                                  ELSE "Network error" ] >>

\* C7 as claimed: the envelope's status is the status of the response the final
\* attempt received, and is 0 only when the final attempt received no response.
C7_Original ==
  (pc = "done" /\ result # <<>>)
    => /\ lastOutcome.type = "response" => result[1].status = lastOutcome.status
       /\ result[1].status = 0 => lastOutcome.type # "response"

\* C8: a returned envelope is { ok: true, status, data } with the status of a
\* response the transport reported ok, or { ok: false, status, error }; it is
\* the former exactly when the final attempt received an ok response.
C8_TwoShapes ==
  result # <<>> =>
    LET r == result[1]
    IN  /\ \/ /\ IsSuccessEnvelope(r)
              /\ lastOutcome.type = "response" /\ lastOutcome.ok
              /\ r.status = lastOutcome.status
           \/ IsFailureEnvelope(r)
        /\ r.ok <=> (lastOutcome.type = "response" /\ lastOutcome.ok)

\* a call returned the failure envelope of a non-ok 3xx response
C8_Witness ==
  /\ pc = "done" /\ result # <<>> /\ IsFailureEnvelope(result[1])
  /\ lastOutcome.type = "response" /\ lastOutcome.status = 301

\* C9: the headers getAuthHeaders derived for the latest attempt follow the
\* priority: a (non-empty) bearer token gives only Authorization: Bearer <token>;
\* else an API key gives only x-entrolytics-api-key; else userId and secret
\* together give only x-entrolytics-share-token (or the derivation threw and gave
\* no header); else there is no header.
C9_AuthPriority ==
  lastAuth # <<>> =>
    LET a == lastAuth[1]
    IN  IF Truthy(a.token)
        THEN ~a.threw /\ a.headers = [k \in {"Authorization"} |-> "Bearer " \o a.token]
        ELSE IF Truthy(apiKey)
        THEN ~a.threw /\ a.headers = [k \in {"x-entrolytics-api-key"} |-> apiKey]
        ELSE IF Truthy(userId) /\ Truthy(secret)
        THEN IF a.threw THEN a.headers = EmptyHeaders
             ELSE DOMAIN a.headers = {"x-entrolytics-share-token"}
        ELSE ~a.threw /\ a.headers = EmptyHeaders

\* an attempt derived its header on a client holding all three credentials
C9_Witness ==
  /\ pc = "fetching" /\ lastAuth # <<>>
  /\ Truthy(lastAuth[1].token) /\ Truthy(apiKey) /\ Truthy(userId) /\ Truthy(secret)
  /\ DOMAIN lastAuth[1].headers = {"Authorization"}

\* C10 as claimed: every transport call carries exactly one credential header.
C10_Original ==
  lastSent # <<>> =>
    Cardinality(DOMAIN lastSent[1].headers \cap CredentialHeaders) = 1

\* C10 amended: the credential headers of a transport call are the one the
\* engine derived, if any, and those the caller's headers name; the engine
\* derives exactly one when the client holds a bearer token, an API key or both
\* userId and secret at the start of the attempt, and none otherwise.
C10_AtMostOneFromEngine ==
  pc = "fetching" =>
    LET a == lastAuth[1]
        engine == DOMAIN a.headers
        holds == Truthy(a.token) \/ Truthy(apiKey) \/ (Truthy(userId) /\ Truthy(secret))
    IN  /\ DOMAIN lastSent[1].headers \cap CredentialHeaders
             = engine \cup (DOMAIN headers \cap CredentialHeaders)
        /\ engine \subseteq CredentialHeaders
        /\ Cardinality(engine) = IF holds THEN 1 ELSE 0

\* a transport call of a client without credentials carried no credential header
C10_Witness ==
  /\ pc = "fetching"
  /\ ~Truthy(bearerToken) /\ ~Truthy(apiKey) /\ ~Truthy(userId) /\ ~Truthy(secret)
  /\ DOMAIN lastSent[1].headers \cap CredentialHeaders = {}

\* C13 as claimed: a call on a constructed client always resolves with an
\* envelope, whatever the path, the accepted endpoint, the body and the params.
C13_Original == pc = "done" => (result # <<>> /\ rejected = <<>>)

\* the attempts of the call that have run their try block
AttemptsPerformed ==
  IF lastAuth = <<>> THEN 0
  ELSE IF pc = "loop" \/ (pc = "done" /\ ~(attempt <= retries)) THEN attempt
  ELSE attempt + 1

\* C14: the k-th sleep of a call lasts retryDelay * 2^(k-1); no sleep precedes
\* the first attempt, one sleep lies between consecutive attempts and none
\* follows the final one: while an attempt is awaited there is one sleep per
\* earlier attempt, during a sleep one per attempt performed, and a call that
\* returned after at least one attempt slept one time less than it attempted.
C14_BackoffBetweenAttempts ==
  /\ \A k \in 1..Len(sleeps) : sleeps[k] = retryDelay * (2 ^ (k - 1))
  /\ lastAuth = <<>> => sleeps = <<>>
  /\ pc = "fetching" => Len(sleeps) = attempt /\ AttemptsPerformed = attempt + 1
  /\ pc = "sleeping" => Len(sleeps) = AttemptsPerformed
  /\ (pc = "done" /\ AttemptsPerformed >= 1) => Len(sleeps) = AttemptsPerformed - 1

\* a call returned after three attempts of mixed failures and two sleeps
C14_Witness ==
  /\ pc = "done" /\ sleeps = <<250, 500>> /\ fetchCalls = 3
  /\ ~allThrew /\ ~allRetryable /\ lastOutcome.type = "throw"

\* C15 as claimed: once an attempt ended with a non-ok response, the candidate
\* failure carries the body's error when it is a string, else its message when
\* it is a string, else "HTTP <status>".
C15_Original ==
  (/\ pc \in {"sleeping", "done"}
   /\ lastOutcome.type = "response" /\ ~lastOutcome.ok)
    => /\ lastError # <<>>
       /\ lastError[1].error =
            IF lastOutcome.body.kind = "object" /\ lastOutcome.body.error.type = "string"
            THEN lastOutcome.body.error.value
            ELSE IF /\ lastOutcome.body.kind = "object"
                    /\ lastOutcome.body.message.type = "string"
            THEN lastOutcome.body.message.value
            ELSE "HTTP " \o ToString(lastOutcome.status)

\* C16: a body json() rejects leaves the outcome to the status. Once the
\* attempt that received it has ended (the call sleeps or has returned): an ok
\* status returned { ok: true, status, data: {} }; a non-ok status stored the
\* failure of that status with the error "HTTP <status>", as for the body {},
\* and returned it at once unless the status is 429 or >= 500 and attempts
\* remained; the envelope never carries status 0.
C16_ParseFailureKeepsClass ==
  (/\ pc \in {"sleeping", "done"}
   /\ lastOutcome.type = "response" /\ lastOutcome.body.kind = "unparsable")
    => LET st == lastOutcome.status
           failure == [ok |-> FALSE, status |-> st, error |-> "HTTP " \o ToString(st)]
       IN  IF lastOutcome.ok
           THEN /\ pc = "done"
                /\ result = << [ok |-> TRUE, status |-> st, data |-> EmptyObject] >>
           ELSE /\ lastError = <<failure>>
                /\ pc = "done" => result = <<failure>>
                /\ pc = "sleeping" <=> ((st = 429 \/ st >= 500) /\ attempt < retries)

\* an unparsable body of an ok response was returned as {} by a second attempt
C16_Witness ==
  /\ pc = "done" /\ attempt = 1
  /\ lastOutcome.type = "response" /\ lastOutcome.body.kind = "unparsable"
  /\ lastOutcome.ok /\ result # <<>> /\ result[1].ok /\ result[1].data = EmptyObject

\* C17 as claimed: the transport call carries a body exactly when the caller
\* supplied one, falsy values included.
C17_Original ==
  pc = "fetching" => (lastSent[1].body.present <=> body.type # "undefined")

\* C18: the headers of an attempt are the override merge of the content type,
\* the derived authentication header and the caller's headers: a name the caller
\* gives carries the caller's value, else a name the authentication gives
\* carries its value, else Content-Type is application/json.
C18_HeaderLayers ==
  pc = "fetching" =>
    LET sent == lastSent[1].headers
        auth == lastAuth[1].headers
    IN  /\ DOMAIN sent = {"Content-Type"} \cup DOMAIN auth \cup DOMAIN headers
        /\ \A k \in DOMAIN sent :
             sent[k] = IF k \in DOMAIN headers THEN headers[k]
                       ELSE IF k \in DOMAIN auth THEN auth[k]
                       ELSE "application/json"

\* a caller's Authorization replaced the bearer header the engine derived
C18_Witness ==
  /\ pc = "fetching"
  /\ "Authorization" \in DOMAIN headers
  /\ "Authorization" \in DOMAIN lastAuth[1].headers
  /\ lastAuth[1].headers["Authorization"] # headers["Authorization"]
  /\ lastSent[1].headers["Authorization"] = headers["Authorization"]

PairsOf(search, k) ==
  LET HasKey(pair) == pair[1] = k
  IN  SelectSeq(search, HasKey)

\* C19: in the URL built from a path and a params map, every entry whose value
\* is not undefined gives exactly one query pair of its key, carrying the
\* String() form of the value and replacing every pair of that key the path
\* had; an undefined entry and a key outside the map leave the path's pairs of
\* that key as they were; no pair carries the text "undefined".
C19_QueryFromParams ==
  urlCase.phase = "built" =>
    LET entries == IF urlCase.params = {} THEN <<>>
                   ELSE CHOOSE l \in urlCase.params : TRUE
        before == PathParts[urlCase.path].search
        out == urlCase.out[1]
        written == { i \in 1..Len(entries) : entries[i][2].type # "undefined" }
    IN  /\ ~out.threw
        /\ \A i \in written :
             PairsOf(out.search, entries[i][1]) = << <<entries[i][1], entries[i][2].text>> >>
        /\ \A k \in ParamKeys :
             (\A i \in written : entries[i][1] # k)
               => PairsOf(out.search, k) = PairsOf(before, k)
        /\ \A j \in 1..Len(out.search) :
             out.search[j][1] \in ParamKeys /\ out.search[j][2] # "undefined"
        /\ out.url = "https://api.example.com/websites"
                     \o (IF out.search = <<>> THEN "" ELSE "?" \o SearchText(out.search))

\* a path with two page pairs met a map with an empty q, a false page: one page
\* pair is left, with the map's value, and q is sent empty
C19_Witness ==
  /\ urlCase.phase = "built"
  /\ urlCase.path = "/websites?page=1&page=7"
  /\ urlCase.params = { << <<"q", Js("string", "")>>, <<"page", Js("boolean", "false")>> >> }
  /\ urlCase.out[1].url = "https://api.example.com/websites?page=false&q="

\* C11: every attempt handed to the transport carries the header derived from
\* the bearer-token field as it was when that attempt started: 'Bearer <token>'
\* for a non-empty token, no Authorization header for an empty one; an attempt
\* started since the latest setBearerToken carries the current token, whichever
\* invocation it belongs to, and attempts follow the order of the token changes.
C11_FreshTokenPerAttempt ==
  \A c \in CallIds :
    LET sent == calls[c].sent
    IN  \A i \in 1..Len(sent) :
          /\ IF sent[i].token \notin {Undefined, ""}
             THEN /\ "Authorization" \in DOMAIN sent[i].headers
                  /\ sent[i].headers["Authorization"] = "Bearer " \o sent[i].token
             ELSE "Authorization" \notin DOMAIN sent[i].headers
          /\ sent[i].sets = tokenSets => sent[i].token = bearerToken
          /\ sent[i].sets <= tokenSets
          /\ \A j \in 1..(i - 1) : sent[j].sets <= sent[i].sets

\* setBearerToken('tokB') ran while an invocation awaited its backoff sleep: its
\* first attempt was sent with tokA, its second with tokB, and the first attempt
\* of the other invocation, started later, with tokB
C11_Witness ==
  \E c \in CallIds, d \in CallIds :
    /\ c # d /\ bearerToken = "tokB"
    /\ Len(calls[c].sent) = 2 /\ Len(calls[d].sent) = 1
    /\ calls[c].sent[1].headers["Authorization"] = "Bearer tokA"
    /\ calls[c].sent[2].headers["Authorization"] = "Bearer tokB"
    /\ calls[d].sent[1].headers["Authorization"] = "Bearer tokB"

\* an outcome after which the loop retries while attempts remain
OutcomeRetries(o) ==
  \/ o.type = "throw"
  \/ o.type = "response" /\ ~o.ok /\ (o.status = 429 \/ o.status >= 500)

\* C20: every request handed to the transport belongs to one invocation, and
\* what an invocation did follows from the outcomes of its own attempts: one
\* transport call per outcome (plus the one awaited), at most retries + 1, a
\* retry after each outcome but the last, the k-th sleep of retryDelay * 2^(k-1),
\* and the envelope of its last outcome; two invocations that met the same
\* outcomes made as many transport calls and returned equal envelopes.
C20_CallsIndependent ==
  /\ wire = Len(calls[1].sent) + Len(calls[2].sent)
  /\ \A c \in CallIds :
       LET k == calls[c]
           n == Len(k.outcomes)
           slept == IF n >= 1 /\ (k.pc = "done" \/ (k.pc = "loop" /\ n = retries + 1))
                    THEN n - 1 ELSE n
       IN  /\ n <= retries + 1
           /\ Len(k.sent) = n + (IF k.pc = "fetching" THEN 1 ELSE 0)
           /\ \A i \in 1..(n - 1) : OutcomeRetries(k.outcomes[i])
           /\ k.sleeps = [i \in 1..slept |-> retryDelay * (2 ^ (i - 1))]
           /\ k.pc = "sleeping" => n >= 1 /\ n <= retries /\ OutcomeRetries(k.outcomes[n])
           /\ k.pc = "done" =>
                /\ n >= 1
                /\ OutcomeRetries(k.outcomes[n]) => n = retries + 1
                /\ Len(k.result) = 1
                /\ k.result[1].ok = k.outcomes[n].ok
                /\ k.result[1].status = k.outcomes[n].status
  /\ (/\ calls[1].pc = "done" /\ calls[2].pc = "done"
      /\ calls[1].outcomes = calls[2].outcomes)
       => /\ calls[1].result = calls[2].result
          /\ calls[1].sleeps = calls[2].sleeps
          /\ Len(calls[1].sent) = Len(calls[2].sent)

\* one invocation retried after a thrown error while the other, started in
\* between, succeeded at once: three transport calls, two ok envelopes
C20_Witness ==
  /\ calls[1].pc = "done" /\ calls[2].pc = "done" /\ wire = 3
  /\ Len(calls[1].outcomes) = 2 /\ calls[1].outcomes[1].type = "throw"
  /\ calls[1].sleeps = <<1000>>
  /\ Len(calls[2].outcomes) = 1 /\ calls[2].sleeps = <<>>
  /\ calls[1].result[1].ok /\ calls[2].result = calls[1].result

\* C21 as claimed: a constructed client holds, for each of endpoint,
\* bearerToken, apiKey, userId and secret, the value the config supplied
\* whenever it supplied one, the empty string included; the environment value
\* is used only for a field the config left out.
C21_Original ==
  ctor.phase = "constructed" =>
    LET cfg == ctor.config
        client == ctor.client[1]
    IN  /\ cfg.endpoint # Undefined => client.endpoint = cfg.endpoint
        /\ cfg.bearerToken # Undefined => client.bearerToken = cfg.bearerToken
        /\ cfg.apiKey # Undefined => client.apiKey = cfg.apiKey
        /\ cfg.userId # Undefined => client.userId = cfg.userId
        /\ cfg.secret # Undefined => client.secret = cfg.secret

\* C22 as claimed: a call that got past URL building and returned has run at
\* least one attempt, whatever the retries value, and its envelope is never the
\* fallback { ok: false, status: 0, error: 'Request failed after retries' }.
C22_Original ==
  (pc = "done" /\ rejected = <<>>)
    => /\ lastAuth # <<>>
       /\ result # <<Fallback>>

\* the failure an attempt records for what it met: an exception (thrown by the
\* transport, raised before the transport was called, or raised by reading a
\* null body) gives status 0 and the exception's message, a non-ok response
\* gives its status and the text its body gives
FailureOf(o) ==
  IF o.type \in {"throw", "prefetch"}
  THEN [ok |-> FALSE, status |-> 0,
        error |-> IF o.thrown.isError THEN o.thrown.message ELSE "Network error"]
  ELSE IF o.body.kind = "null"
  THEN [ok |-> FALSE, status |-> 0, error |-> NullPropertyError.thrown.message]
  ELSE [ok |-> FALSE, status |-> o.status,
        error |-> IF o.body.error.type = "string" THEN o.body.error.value
                  ELSE IF o.body.message.type = "string" THEN o.body.message.value
                  ELSE "HTTP " \o ToString(o.status)]

\* C23: a call that ran at least one attempt and returned a failure returns the
\* failure recorded by its last attempt, whatever earlier attempts recorded; the
\* candidate is the one of the latest failed attempt at every moment.
C23_LastAttemptWins ==
  /\ (pc \in {"sleeping", "done"} /\ lastError # <<>> /\ ~lastOutcome.ok)
       => lastError = <<FailureOf(lastOutcome)>>
  /\ (pc = "done" /\ result # <<>> /\ ~result[1].ok /\ lastAuth # <<>>)
       => result = <<FailureOf(lastOutcome)>>

\* three attempts, not all of one kind, the last one a 429 with an error text:
\* the envelope is the 429's
C23_Witness ==
  /\ pc = "done" /\ fetchCalls = 3 /\ ~allRetryable /\ ~allThrew
  /\ lastOutcome.type = "response" /\ lastOutcome.status = 429
  /\ result = <<[ok |-> FALSE, status |-> 429, error |-> "bad input"]>>

\* C24 as claimed: every call that was made eventually returns an envelope,
\* when the transport always answers or throws and the timers always fire.
C24_Original == (pc # "idle") ~> (pc = "done" /\ result # <<>>)

\* C25: from one attempt of a call to the next, the request handed to the
\* transport keeps its URL, method, serialized body and every header but the
\* credential header the engine derived (a header the caller supplied stays
\* too); and a step of setBearerToken changes the bearer-token field and nothing
\* else: not the other fields of the client, not the call in flight.
C25_OnlyAuthDiffers ==
  [][ /\ (lastSent # <<>> /\ lastSent' # <<>>)
           => /\ lastSent'[1].url = lastSent[1].url
              /\ lastSent'[1].method = lastSent[1].method
              /\ lastSent'[1].body = lastSent[1].body
              /\ \A k \in (DOMAIN lastSent[1].headers \cup DOMAIN lastSent'[1].headers)
                          \ (CredentialHeaders \ DOMAIN headers) :
                   /\ k \in DOMAIN lastSent[1].headers
                   /\ k \in DOMAIN lastSent'[1].headers
                   /\ lastSent'[1].headers[k] = lastSent[1].headers[k]
      /\ (tokenSets' # tokenSets)
           => UNCHANGED <<endpoint, apiKey, userId, secret, fetchFn, retries,
                          retryDelay, singleVars>>
    ]_vars

\* the second attempt of a POST went out after setBearerToken('tokB') ran
\* during the first one's backoff: same body, another Authorization
C25_Witness ==
  /\ pc = "fetching" /\ fetchCalls = 2 /\ tokenSets = 1
  /\ lastSent[1].method = "POST" /\ lastSent[1].body.present
  /\ lastAuth[1].token = "tokB"
  /\ lastSent[1].headers["Authorization"] = "Bearer tokB"

\* C26 as claimed: once an attempt raised an exception before the transport was
\* called (and until a later attempt meets another outcome), the call does not
\* reject, the candidate is { ok: false, status: 0, error: <the message> }, and
\* the transport is called zero times for the call.
C26_Original ==
  lastOutcome.type = "prefetch"
    => /\ rejected = <<>>
       /\ lastError = <<[ok |-> FALSE, status |-> 0,
                         error |-> lastOutcome.thrown.message]>>
       /\ fetchCalls = 0

\* C26, amended: an exception raised before the transport is called is not
\* thrown to the caller; it is recorded as { ok: false, status: 0, error: <its
\* message> }, followed by a backoff sleep of retryDelay * 2^attempt while
\* attempts remain and returned when they are exhausted; the transport is called
\* zero times for that call as long as setBearerToken has not run.
C26_PreFetchHandledAsFailure ==
  lastOutcome.type = "prefetch"
    => LET failure == [ok |-> FALSE, status |-> 0,
                       error |-> lastOutcome.thrown.message]
       IN  /\ rejected = <<>>
           /\ lastError = <<failure>>
           /\ pc = "sleeping" => /\ attempt < retries
                                 /\ sleeps[Len(sleeps)] = retryDelay * (2 ^ attempt)
           /\ pc = "done" => attempt = retries + 1 /\ result = <<failure>>
           /\ tokenSets = 0 => fetchCalls = 0

\* a client whose share token cannot be encoded returned after two attempts and
\* one sleep without any transport call
C26_Witness ==
  /\ pc = "done" /\ lastOutcome.type = "prefetch" /\ fetchCalls = 0
  /\ attempt = 2 /\ sleeps = <<1000>>
  /\ result = <<[ok |-> FALSE, status |-> 0, error |-> "Invalid character"]>>

\* C27: the engine derives the share-token header only on a client that, at
\* that attempt, holds userId and secret and neither a bearer token nor an API
\* key; with exactly one of userId and secret and nothing of higher priority the
\* derivation succeeds with no header and the request handed to the transport
\* carries no credential of the engine's; and no attempt ever meets the 'userId
\* and secret are required' error.
C27_ShareTokenOnlyForLegacyPair ==
  /\ lastAuth # <<>> =>
       LET a == lastAuth[1]
           has(x) == x \notin {Undefined, ""}
       IN  /\ "x-entrolytics-share-token" \in DOMAIN a.headers
                => has(userId) /\ has(secret) /\ ~has(a.token) /\ ~has(apiKey)
           /\ (has(userId) # has(secret) /\ ~has(a.token) /\ ~has(apiKey))
                => /\ ~a.threw /\ a.headers = EmptyHeaders
                   /\ pc = "fetching"
                        => DOMAIN lastSent[1].headers \cap CredentialHeaders
                             \subseteq DOMAIN headers
  /\ lastOutcome.thrown # ShareTokenConfigError.thrown
  /\ \A i \in 1..Len(lastError) : lastError[i].error # ShareTokenConfigError.thrown.message

\* a client holding only a userId got its answer from an anonymous request
C27_Witness ==
  /\ pc = "done" /\ fetchCalls = 1 /\ result # <<>> /\ result[1].ok
  /\ userId = "user1" /\ secret = Undefined
  /\ bearerToken = Undefined /\ apiKey = Undefined
  /\ lastAuth[1].headers = EmptyHeaders
  /\ DOMAIN lastSent[1].headers = {"Content-Type"}

\* a response the wrapper is said to return at once: successful or 4xx
EdgeFinal(o) == o.type = "response" /\ (o.ok \/ (o.status >= 400 /\ o.status <= 499))

\* an outcome the wrapper is said to retry: a 5xx response or a thrown error
\* that is no abort
EdgeRetried(o) ==
  \/ o.type = "response" /\ o.status >= 500 /\ o.status <= 599
  \/ o.type = "throw" /\ o.name # "AbortError"

\* C28 as claimed: a successful or 4xx response is returned at once; an attempt
\* is followed by a wait or another attempt only after a 5xx response or a
\* thrown error that is no abort; there are at most retries + 1 fetch calls, the
\* k-th wait lasts retryDelay * 2^(k-1) and none follows the last attempt; and
\* once the attempts are exhausted the error recorded last is thrown.
C28_Original ==
  edge.pc \notin {"none", "idle"} =>
    LET o == edge.outcomes
        n == Len(o)
        ended == edge.pc \in {"returned", "threw"}
                 \/ (edge.pc = "loop" /\ edge.attempt > finalRetries(edge))
        waits == IF n >= 1 /\ ended THEN n - 1 ELSE n
    IN  /\ \A i \in 1..n :
             EdgeFinal(o[i]) => i = n /\ edge.pc = "returned" /\ edge.result = <<o[i]>>
        /\ \A i \in 1..(n - 1) : EdgeRetried(o[i])
        /\ edge.pc = "sleeping" => EdgeRetried(o[n])
        /\ edge.fetchCalls <= finalRetries(edge) + 1
        /\ edge.sleeps = [k \in 1..waits |-> finalDelay(edge) * (2 ^ (k - 1))]
        /\ (edge.pc = "threw" /\ n >= 1 /\ o[n].name # "AbortError")
             => /\ n = finalRetries(edge) + 1
                /\ edge.result = <<>>
                /\ edge.thrown = edge.lastError

\* C29: an attempt whose fetch was aborted by the timer is the last one: the
\* wrapper has thrown 'Request timeout after <timeout>ms' with no later fetch
\* call and no later wait, whatever attempts remained; <timeout> is the call's
\* option when given, else the wrapper's default when given, else 30000.
C29_AbortNeverRetried ==
  edge.pc \notin {"none", "idle"} =>
    LET o == edge.outcomes
        n == Len(o)
        timeout == IF edge.options.timeout # {}
                   THEN CHOOSE t \in edge.options.timeout : TRUE
                   ELSE IF edge.defaults.timeout # {}
                   THEN CHOOSE t \in edge.defaults.timeout : TRUE
                   ELSE 30000
    IN  \A i \in 1..n :
          o[i].name = "AbortError"
            => /\ i = n
               /\ edge.pc = "threw"
               /\ edge.thrown = << [name |-> "Error",
                                    message |-> "Request timeout after "
                                                \o ToString(timeout) \o "ms"] >>
               /\ edge.result = <<>>
               /\ edge.fetchCalls = n
               /\ Len(edge.sleeps) = n - 1

\* the second of four allowed attempts was aborted: the wrapper threw the
\* timeout of its default options after two fetch calls and one wait
C29_Witness ==
  /\ edge.pc = "threw" /\ finalRetries(edge) = 3
  /\ Len(edge.outcomes) = 2 /\ edge.outcomes[2].name = "AbortError"
  /\ edge.options.timeout = {} /\ edge.defaults.timeout = {10000}
  /\ edge.thrown[1].message = "Request timeout after 10000ms"
  /\ edge.fetchCalls = 2 /\ edge.sleeps = <<1000>>

\* C30 as claimed: in every environment detectRuntime returns 'node', 'edge' or
\* 'unknown' and does not throw: 'edge' when EdgeRuntime or Deno exists or when
\* WebAssembly and Response exist without process.versions.node, else 'node'
\* when process.versions.node exists, else 'unknown'; isNodeRuntime,
\* isEdgeRuntime and getRuntimeCapabilities return what follows from that value,
\* and assertRuntime throws exactly when the expected runtime is another one.
C30_Original ==
  runtimeCase.phase = "done" =>
    LET env == runtimeCase.env
        out == runtimeCase.out
        rt == IF env.edgeRuntime \/ env.deno
                 \/ (env.webAssembly /\ env.response /\ env.process # "node")
              THEN "edge"
              ELSE IF env.process = "node" THEN "node" ELSE "unknown"
    IN  /\ out.fn # "assertRuntime" => out.error = <<>>
        /\ out.fn = "detectRuntime" => out.runtime = rt
        /\ out.fn = "isNodeRuntime" => out.flag = (rt = "node")
        /\ out.fn = "isEdgeRuntime" => out.flag = (rt = "edge")
        /\ out.fn = "getRuntimeCapabilities"
             => /\ out.caps.runtime = rt
                /\ out.caps.isNode = (rt = "node")
                /\ out.caps.isEdge = (rt = "edge")
                /\ out.caps.supportsFileSystem = (rt = "node")
        /\ out.fn = "assertRuntime"
             => /\ out.error # <<>> <=> runtimeCase.expected # rt
                /\ out.error # <<>>
                     => out.error = <<AssertionError(runtimeCase.expected, rt)>>

=============================================================================
